---------------------------- MODULE Spec2Model ----------------------------
(***************************************************************************)
(* A model of graphlite's query layer (src/graphlite/query.py): the edge   *)
(* pattern class V, the Query class with its composition operations, and   *)
(* the generator that Query.__iter__ returns together with its consumers   *)
(* (count, __getitem__/islice).                                            *)
(*                                                                         *)
(* Python values are modelled as follows.  None is the string "None".      *)
(* Node identifiers and relation names are strings.  A tuple or a list is  *)
(* a sequence plus a tag saying which of the two it is, because            *)
(* `list + tuple` raises TypeError while `tuple + tuple` concatenates.     *)
(* A string of SQL text is a sequence of tokens, so that joining and       *)
(* nesting of statements are computed and not assumed.                     *)
(***************************************************************************)
EXTENDS Integers, Sequences, FiniteSets, TLC

VARIABLES
    edges,      \* heap of V objects: sequence of records, index = identity
    vlast,      \* the last operation on a V object and what it returned
    queries,    \* heap of Query objects, queries[1] is the root Query(db)
    qlast,      \* the last composition operation and its outcome
    gens,       \* heap of generator / islice objects made by iterating
    cursors,    \* the backend session: every cursor it ever handed out
    ilast       \* the last iteration-side operation and its outcome

vars == <<edges, vlast, queries, qlast, gens, cursors, ilast>>

None == "None"

-----------------------------------------------------------------------------
(* Bounds of the model.                                                    *)

MaxEdges == 2       \* V objects alive at once
MaxQueries == 4     \* Query objects on the heap, the root included
SysQueries == 2     \* the same, while iteration is modelled as well
SysGens == 1        \* generator objects made by iterating, ditto
SysRows == 1        \* rows the backend returns on one cursor, ditto
MaxGens == 1        \* generator objects, when composed queries are iterated
MaxRows == 2        \* rows the backend returns on one cursor, ditto
MaxSlices == 1      \* islice objects, when a composed query is subscripted
SliceRows == 3      \* rows the backend returns on one cursor, ditto

-----------------------------------------------------------------------------
(* Inputs.                                                                 *)

Nodes == {"A", "B"}
NodeOrNone == Nodes \cup {None}

-----------------------------------------------------------------------------
(* class V, query.py lines 6-75.                                           *)

\* __slots__ = ('src', 'rel', 'dst')
Slots == <<"src", "rel", "dst">>

SlotNames == {Slots[k] : k \in DOMAIN Slots}

\* V.__init__: the three fields, each defaulting to None.
V(src, rel, dst) == [type |-> "V", src |-> src, rel |-> rel, dst |-> dst]

\* Values that are not V instances but may be handed to ==: a plain tuple
\* holding the same three components, and None.
NonV(type, src, rel, dst) == [type |-> type, src |-> src, rel |-> rel, dst |-> dst]

\* V.__getattr__(attr), reached only when normal lookup did not find attr.
\* Returns the outcome and the object as the method leaves it.
V_getattr(self, attr) ==
    IF attr \in SlotNames
    THEN [exc |-> "TypeError", obj |-> self, retSelf |-> FALSE]
    ELSE [exc |-> None, obj |-> [self EXCEPT !.rel = attr], retSelf |-> TRUE]

\* V.__call__(dst): self.dst = dst; return self.
V_call(self, dst) == [self EXCEPT !.dst = dst]

V_eq_no_dst(self, other) ==
    IF other.type # "V"
    THEN FALSE
    ELSE self.src = other.src /\ self.rel = other.rel

\* V.__eq__(other).
V_eq(self, other) ==
    IF other.type # "V"
    THEN FALSE
    ELSE (self.src = other.src /\
          self.rel = other.rel /\
          self.dst = other.dst)

\* The builtin hash of one component (None, a node or a relation name).
HashWidth == 65536

ObjHash(x) ==
    CASE x = None -> 7
      [] x = "A" -> 101
      [] x = "B" -> 211
      [] x = "knows" -> 307
      [] x = "likes" -> 401
      [] OTHER -> 503

\* The builtin hash of a tuple: a running combination of the components'
\* hashes in order, kept to a fixed width.
RECURSIVE TupleHashFrom(_, _, _)
TupleHashFrom(t, k, acc) ==
    IF k > Len(t)
    THEN acc
    ELSE TupleHashFrom(t, k + 1, (acc * 31 + ObjHash(t[k])) % HashWidth)

TupleHash(t) == TupleHashFrom(t, 1, 17)

\* V.__hash__: hash((self.src, self.rel, self.dst)).
V_hash(self) == TupleHash(<<self.src, self.rel, self.dst>>)

VRet(op, self, arg, other, before, retSelf, retVal, retBool, retInt) ==
    [op |-> op, self |-> self, arg |-> arg, other |-> other, before |-> before,
     retSelf |-> retSelf, retVal |-> retVal, retBool |-> retBool, retInt |-> retInt]

NoObj == NonV("NoneType", None, None, None)

VInit ==
    /\ edges = <<>>
    /\ vlast = VRet("init", 0, None, NoObj, <<>>, FALSE, None, FALSE, 0)

\* V(src, rel, dst)
VConstruct(src, rel, dst) ==
    /\ Len(edges) < MaxEdges
    /\ edges' = Append(edges, V(src, rel, dst))
    /\ vlast' = VRet("construct", Len(edges) + 1, None, NoObj, edges,
                     TRUE, None, FALSE, 0)

\* v.<attr>: normal lookup finds the three slots (always set by __init__);
\* every other name falls through to __getattr__.
VGetAttr(i, attr) ==
    IF attr \in SlotNames
    THEN /\ edges' = edges
         /\ vlast' = VRet("getattr", i, attr, NoObj, edges, FALSE,
                          CASE attr = "src" -> edges[i].src
                            [] attr = "rel" -> edges[i].rel
                            [] OTHER -> edges[i].dst,
                          FALSE, 0)
    ELSE LET r == V_getattr(edges[i], attr) IN
         /\ edges' = [edges EXCEPT ![i] = r.obj]
         /\ vlast' = VRet("getattr", i, attr, NoObj, edges, r.retSelf, None, FALSE, 0)

\* v(dst)
VCall(i, dst) ==
    /\ edges' = [edges EXCEPT ![i] = V_call(edges[i], dst)]
    /\ vlast' = VRet("call", i, dst, NoObj, edges, TRUE, None, FALSE, 0)

\* v == other
VEq(i, other) ==
    /\ edges' = edges
    /\ vlast' = VRet("eq", i, None, other, edges, FALSE, None,
                     V_eq(edges[i], other), 0)

\* hash(v)
VHash(i) ==
    /\ edges' = edges
    /\ vlast' = VRet("hash", i, None, NoObj, edges, FALSE, None, FALSE,
                     V_hash(edges[i]))

\* What == may be handed besides the V objects on the heap: None, and for
\* each V object the plain tuple of its three components.
Others ==
    {NonV("tuple", edges[j].src, edges[j].rel, edges[j].dst) : j \in DOMAIN edges}
    \cup {NoObj}

\* Attribute names read off a V: a relation name, and one of the slots.
AttrNames == {"likes", "dst"}

NextV ==
    /\ \/ \E s \in {None, "A"}, r \in {None, "knows"}, d \in {None, "B"} : VConstruct(s, r, d)
       \/ \E i \in DOMAIN edges, a \in AttrNames : VGetAttr(i, a)
       \/ \E i \in DOMAIN edges, d \in {"A"} : VCall(i, d)
       \/ \E i \in DOMAIN edges, o \in Others : VEq(i, o)
       \/ \E i \in DOMAIN edges, j \in DOMAIN edges : VEq(i, edges[j])
       \/ \E i \in DOMAIN edges : VHash(i)
    /\ UNCHANGED <<queries, qlast, gens, cursors, ilast>>

-----------------------------------------------------------------------------
(* Python sequences and strings.                                           *)

\* A tuple or a list: its type and its items.
Tuple(items) == [type |-> "tuple", items |-> items]
List(items) == [type |-> "list", items |-> items]

\* a + b on tuples and lists: concatenation when both have the same type,
\* TypeError otherwise.
SeqAdd(a, b) ==
    IF a.type = b.type
    THEN [exc |-> None, val |-> [type |-> a.type, items |-> a.items \o b.items]]
    ELSE [exc |-> "TypeError", val |-> a]

\* '\n'.join(sql): the fragments' text with one separator between
\* neighbours; works on tuples and lists alike.
RECURSIVE JoinFrom(_, _)
JoinFrom(items, k) ==
    IF k > Len(items) THEN <<>>
    ELSE IF k = Len(items) THEN items[k]
    ELSE items[k] \o <<"\n">> \o JoinFrom(items, k + 1)

Join(sql) == JoinFrom(sql.items, 1)

-----------------------------------------------------------------------------
(* graphlite.sql, the statement builders Query calls (query.py line 3).    *)
(* Each returns a statement and a tuple of parameters.                     *)

SqlResult(fn, node, rel, text, statement, params) ==
    [call |-> [fn |-> fn, node |-> node, rel |-> rel, text |-> text],
     statement |-> statement, params |-> Tuple(params)]

forwards_relation(src, rel) ==
    SqlResult("forwards_relation", src, rel, <<>>,
              <<"SELECT dst FROM", rel, "WHERE src = ?">>, <<src>>)

inverse_relation(dst, rel) ==
    SqlResult("inverse_relation", dst, rel, <<>>,
              <<"SELECT src FROM", rel, "WHERE dst = ?">>, <<dst>>)

compound_fw_query(rel, query) ==
    SqlResult("compound_fw_query", None, rel, query,
              <<"SELECT dst FROM", rel, "WHERE src IN (">> \o query \o <<")">>,
              <<>>)

compound_iv_query(dst, rel, query) ==
    SqlResult("compound_iv_query", dst, rel, query,
              <<"SELECT src FROM", rel, "WHERE dst = ? AND src IN (">>
                  \o query \o <<")">>,
              <<dst>>)

-----------------------------------------------------------------------------
(* class Query, composition: query.py lines 78-88 and 103-181.             *)

\* Query.__init__(db, sql=tuple(), params=tuple())
Query(db, sql, params) == [db |-> db, sql |-> sql, params |-> params]

NoQuery == Query(None, Tuple(<<>>), Tuple(<<>>))

\* The outcome of a method: the exception raised (None when it returns),
\* the Query returned, and the statement-builder calls made on the way.
Outcome(exc, ret, calls) == [exc |-> exc, ret |-> ret, calls |-> calls]

\* Query.derived(statement, params): the arguments of Query(...) are
\* evaluated left to right, so a failing self.sql + (statement,) raises
\* before self.params + params is looked at.
Query_derived(self, statement, params) ==
    LET sql == SeqAdd(self.sql, Tuple(<<statement>>))
        prm == SeqAdd(self.params, params)
    IN  IF sql.exc # None THEN Outcome(sql.exc, NoQuery, <<>>)
        ELSE IF prm.exc # None THEN Outcome(prm.exc, NoQuery, <<>>)
        ELSE Outcome(None, Query(self.db, sql.val, prm.val), <<>>)

\* Query.__call__(edge): the builder is chosen on edge.dst alone and is
\* called before derived.
Query_call(self, edge) ==
    LET built == IF edge.dst = None THEN forwards_relation(edge.src, edge.rel)
                 ELSE inverse_relation(edge.dst, edge.rel)
        d == Query_derived(self, built.statement, built.params)
    IN  Outcome(d.exc, d.ret, <<built.call>>)

Query_traverse_drops_params(self, edge) ==
    LET query == Join(self.sql)
        built == IF edge.dst = None THEN compound_fw_query(edge.rel, query)
                 ELSE compound_iv_query(edge.dst, edge.rel, query)
    IN  Outcome(None, Query(self.db, List(<<built.statement>>), built.params),
                <<built.call>>)

\* Query.traverse(edge): a fresh Query on the same db whose sql is the
\* one-element list [statement] and whose params are self.params + params.
Query_traverse(self, edge) ==
    LET query == Join(self.sql)
        built == IF edge.dst = None THEN compound_fw_query(edge.rel, query)
                 ELSE compound_iv_query(edge.dst, edge.rel, query)
        prm == SeqAdd(self.params, built.params)
    IN  IF prm.exc # None THEN Outcome(prm.exc, NoQuery, <<built.call>>)
        ELSE Outcome(None, Query(self.db, List(<<built.statement>>), prm.val),
                     <<built.call>>)

\* The properties intersection, difference and union.
Query_intersection(self) == Query_derived(self, <<"INTERSECT">>, Tuple(<<>>))
Query_difference(self) == Query_derived(self, <<"EXCEPT">>, Tuple(<<>>))
Query_union(self) == Query_derived(self, <<"UNION">>, Tuple(<<>>))

NoEdge == V(None, None, None)

QRet(op, recv, edge, statement, params, before, out) ==
    [op |-> op, recv |-> recv, edge |-> edge, statement |-> statement,
     params |-> params, before |-> before, exc |-> out.exc, calls |-> out.calls,
     ret |-> IF out.exc = None THEN Len(before) + 1 ELSE 0]

\* The heap after a method returned or raised: a returned Query is a new
\* object, a raise allocates nothing.
Allocate(heap, out) == IF out.exc = None THEN Append(heap, out.ret) ELSE heap

Sessions == {"db1", "db2"}

\* q = Query(db)
QInit ==
    /\ \E db \in Sessions : queries = <<Query(db, Tuple(<<>>), Tuple(<<>>))>>
    /\ qlast = QRet("init", 0, NoEdge, <<>>, Tuple(<<>>), <<>>,
                    Outcome("none", NoQuery, <<>>))

Derived(i, statement, params) ==
    LET out == Query_derived(queries[i], statement, params) IN
    /\ queries' = Allocate(queries, out)
    /\ qlast' = QRet("derived", i, NoEdge, statement, params, queries, out)

ApplyEdge(i, edge) ==
    LET out == Query_call(queries[i], edge) IN
    /\ queries' = Allocate(queries, out)
    /\ qlast' = QRet("call", i, edge, <<>>, Tuple(<<>>), queries, out)

Traverse(i, edge) ==
    LET out == Query_traverse(queries[i], edge) IN
    /\ queries' = Allocate(queries, out)
    /\ qlast' = QRet("traverse", i, edge, <<>>, Tuple(<<>>), queries, out)

Intersection(i) ==
    LET out == Query_intersection(queries[i]) IN
    /\ queries' = Allocate(queries, out)
    /\ qlast' = QRet("intersection", i, NoEdge, <<"INTERSECT">>, Tuple(<<>>), queries, out)

Difference(i) ==
    LET out == Query_difference(queries[i]) IN
    /\ queries' = Allocate(queries, out)
    /\ qlast' = QRet("difference", i, NoEdge, <<"EXCEPT">>, Tuple(<<>>), queries, out)

Union(i) ==
    LET out == Query_union(queries[i]) IN
    /\ queries' = Allocate(queries, out)
    /\ qlast' = QRet("union", i, NoEdge, <<"UNION">>, Tuple(<<>>), queries, out)

\* Edge patterns handed to __call__ and traverse.
EdgeInputs == {V(s, "knows", d) : s \in {None, "A"}, d \in {None, "B"}}

\* Fragments and parameters handed to derived directly.
FragmentInputs == {<<"ORDER BY 1">>}
ParamInputs == {Tuple(<<>>), Tuple(<<"A">>)}

Compose(E, F, P) ==
    \/ \E i \in DOMAIN queries, f \in F, p \in P : Derived(i, f, p)
    \/ \E i \in DOMAIN queries, e \in E : ApplyEdge(i, e)
    \/ \E i \in DOMAIN queries, e \in E : Traverse(i, e)
    \/ \E i \in DOMAIN queries : Intersection(i)
    \/ \E i \in DOMAIN queries : Difference(i)
    \/ \E i \in DOMAIN queries : Union(i)

NextQ ==
    /\ Len(queries) < MaxQueries
    /\ Compose(EdgeInputs, FragmentInputs, ParamInputs)
    /\ UNCHANGED <<edges, vlast, gens, cursors, ilast>>

-----------------------------------------------------------------------------
(* The backend session, as Query.__iter__ uses it (query.py lines 98-101): *)
(* db.cursor(), cursor.execute(statement, params), iteration over the      *)
(* cursor, cursor.close().                                                 *)

\* Result rows: the node identifier first, then a second column.
RowValues == {<<"A", "x">>, <<"B", "y">>}

\* A cursor as db.cursor() returns it.
NewCursor ==
    [open |-> TRUE, executes |-> 0, statement |-> <<>>, params |-> <<>>, rows |-> <<>>]

\* What the backend does during one call into the generator: whether
\* execute raises, the rows the next fetches return in order, and whether
\* the fetch after them reports the end of the result or raises.
RECURSIVE SeqsUpTo(_, _)
SeqsUpTo(S, n) ==
    IF n <= 0 THEN {<<>>}
    ELSE LET shorter == SeqsUpTo(S, n - 1)
         IN  shorter \cup {Append(q, x) : q \in {r \in shorter : Len(r) = n - 1}, x \in S}

Scripts(n) ==
    {[exec |-> "ok", rows |-> r, tail |-> t] :
        r \in SeqsUpTo(RowValues, n), t \in {"end", "raise"}}
    \cup {[exec |-> "raise", rows |-> <<>>, tail |-> "raise"]}

-----------------------------------------------------------------------------
(* Query.__iter__, a generator function: query.py lines 90-101.            *)

\* An optional integer: None, or n.
NoneInt == [none |-> TRUE, n |-> 0]
SomeInt(n) == [none |-> FALSE, n |-> n]

\* slice(start, stop, step), and an index that is a plain integer.
SliceIndex(start, stop, step) ==
    [kind |-> "slice", start |-> start, stop |-> stop, step |-> step]
IntIndex(n) == [kind |-> "int", start |-> SomeInt(n), stop |-> NoneInt, step |-> NoneInt]

\* A generator that no islice wraps.
NoSlice ==
    [on |-> FALSE, it |-> FALSE, next |-> 0, cnt |-> 0, stop |-> 0, step |-> 0,
     out |-> <<>>, index |-> IntIndex(0)]

\* iter(q): the generator object; none of the body has run yet.
Generator(query, ref) ==
    [query |-> query, state |-> "created", cursor |-> 0, yielded |-> <<>>,
     ref |-> ref, slice |-> NoSlice]

\* cursor.close(), run by closing(...) on every exit from the with block.
CloseCursor(cs, c) == [cs EXCEPT ![c].open = FALSE]

\* The with block is left: by the loop ending, by an exception, or by
\* GeneratorExit thrown in at the yield.
ExitWith(cs, c) == CloseCursor(cs, c)

StepResult(g, cs, b, out, val) == [g |-> g, cs |-> cs, b |-> b, out |-> out, val |-> val]

\* `for item in cursor: yield item[0]`: one fetch and what follows it.
Fetch(g, cs, b) ==
    LET c == g.cursor IN
    IF b.rows # <<>>
    THEN LET item == Head(b.rows) IN
         StepResult([g EXCEPT !.state = "suspended",
                              !.yielded = Append(@, item[1])],
                    [cs EXCEPT ![c].rows = Append(@, item)],
                    [b EXCEPT !.rows = Tail(@)], "yield", item[1])
    ELSE IF b.tail = "end"
    THEN StepResult([g EXCEPT !.state = "finished"], ExitWith(cs, c), b, "stop", None)
    ELSE StepResult([g EXCEPT !.state = "raised"], ExitWith(cs, c), b, "raise", None)

Start_executes_twice(g, cs, b, self) ==
    LET statement == Join(self.sql)
        c == Len(cs) + 1
        cs1 == Append(cs, [NewCursor EXCEPT !.executes = @ + 2,
                                            !.statement = statement,
                                            !.params = self.params.items])
        g1 == [g EXCEPT !.cursor = c]
    IN  IF b.exec = "raise"
        THEN StepResult([g1 EXCEPT !.state = "raised"], ExitWith(cs1, c), b, "raise", None)
        ELSE Fetch(g1, cs1, b)

\* The body up to the first fetch: the statement is joined, a cursor is
\* opened and the statement is executed on it with self.params.
Start(g, cs, b, self) ==
    LET statement == Join(self.sql)
        c == Len(cs) + 1
        cs1 == Append(cs, [NewCursor EXCEPT !.executes = @ + 1,
                                            !.statement = statement,
                                            !.params = self.params.items])
        g1 == [g EXCEPT !.cursor = c]
    IN  IF b.exec = "raise"
        THEN StepResult([g1 EXCEPT !.state = "raised"], ExitWith(cs1, c), b, "raise", None)
        ELSE Fetch(g1, cs1, b)

\* next(generator)
GenNext(g, cs, b, self) ==
    CASE g.state = "created" -> Start(g, cs, b, self)
      [] g.state = "suspended" -> Fetch(g, cs, b)
      [] OTHER -> StepResult(g, cs, b, "stop", None)

\* generator.close(), also what finalization of an unfinished generator
\* runs: GeneratorExit at the yield unwinds the with block; a generator that
\* never started just ends.
GenClose(g, cs) ==
    CASE g.state = "suspended" ->
             [g |-> [g EXCEPT !.state = "closed"], cs |-> ExitWith(cs, g.cursor)]
      [] g.state = "created" -> [g |-> [g EXCEPT !.state = "closed"], cs |-> cs]
      [] OTHER -> [g |-> g, cs |-> cs]

\* The last reference to a generator goes away.  An interpreter that counts
\* references finalizes it there and then; one that collects garbage later
\* leaves it as it is until Finalize.
GenRelease(g, cs, atOnce) ==
    LET g1 == [g EXCEPT !.ref = "none"] IN
    IF atOnce THEN GenClose(g1, cs) ELSE [g |-> g1, cs |-> cs]

Unfinished(g) == g.state \in {"created", "suspended"}

-----------------------------------------------------------------------------
(* Query.count: query.py lines 183-190.                                    *)

RECURSIVE Consume(_, _, _, _, _)
Consume(g, cs, b, self, n) ==
    LET r == GenNext(g, cs, b, self) IN
    IF r.out = "yield" THEN Consume(r.g, r.cs, r.b, self, n + 1)
    ELSE [g |-> r.g, cs |-> r.cs, out |-> r.out, n |-> n]

Query_count_from_one(g, cs, b, self) == Consume(g, cs, b, self, 1)

\* sum(1 for __ in self)
Query_count(g, cs, b, self) == Consume(g, cs, b, self, 0)

-----------------------------------------------------------------------------
(* Query.__getitem__ and itertools.islice: query.py lines 2 and 192-199.   *)

\* islice(iterable, start, stop, step) checks its arguments before it asks
\* the iterable for an iterator: start and stop must be None or at least 0,
\* step must be None or at least 1.
IsliceArgsOk(start, stop, step) ==
    /\ start.none \/ start.n >= 0
    /\ stop.none \/ stop.n >= 0
    /\ step.none \/ step.n >= 1

\* The islice object over a fresh generator: `next` is the index of the next
\* element to hand out, `cnt` the number of elements taken from the
\* generator, stop -1 means no stop, `it` whether the generator is still
\* referenced; `out` collects what it has handed out and `index` remembers
\* the subscript it was made from.
Islice(start, stop, step) ==
    [on |-> TRUE, it |-> TRUE,
     next |-> IF start.none THEN 0 ELSE start.n,
     cnt |-> 0,
     stop |-> IF stop.none THEN 0 - 1 ELSE stop.n,
     step |-> IF step.none THEN 1 ELSE step.n,
     out |-> <<>>,
     index |-> SliceIndex(start, stop, step)]

Query_getitem_int_as_slice(self, value) ==
    IF value.kind # "slice"
    THEN [exc |-> None, slice |-> Islice(value.start, SomeInt(value.start.n + 1), NoneInt)]
    ELSE IF ~IsliceArgsOk(value.start, value.stop, value.step)
    THEN [exc |-> "ValueError", slice |-> NoSlice]
    ELSE [exc |-> None, slice |-> Islice(value.start, value.stop, value.step)]

\* Query.__getitem__(value): value.start fails on anything that has no such
\* attribute; otherwise islice decides.
Query_getitem(self, value) ==
    IF value.kind # "slice"
    THEN [exc |-> "AttributeError", slice |-> NoSlice]
    ELSE IF ~IsliceArgsOk(value.start, value.stop, value.step)
    THEN [exc |-> "ValueError", slice |-> NoSlice]
    ELSE [exc |-> None, slice |-> Islice(value.start, value.stop, value.step)]

\* islice gives up its iterator (the `empty:` exit of its next): the
\* generator loses its only reference.
IsliceEmpty(g, cs, b, out, atOnce) ==
    LET r == GenRelease([g EXCEPT !.slice.it = FALSE], cs, atOnce)
    IN  StepResult(r.g, r.cs, b, out, None)

\* The elements before `next` are taken from the generator and thrown away.
RECURSIVE IsliceSkip(_, _, _, _)
IsliceSkip(g, cs, b, self) ==
    IF g.slice.cnt < g.slice.next
    THEN LET r == GenNext(g, cs, b, self) IN
         IF r.out = "yield"
         THEN IsliceSkip([r.g EXCEPT !.slice.cnt = @ + 1], r.cs, r.b, self)
         ELSE r
    ELSE StepResult(g, cs, b, "yield", None)

IsliceNext_ignores_step(g, cs, b, self, atOnce) ==
    IF ~g.slice.it THEN StepResult(g, cs, b, "stop", None)
    ELSE
    LET sk == IsliceSkip(g, cs, b, self) IN
    IF sk.out # "yield"
    THEN IsliceEmpty(sk.g, sk.cs, sk.b, sk.out, atOnce)
    ELSE
    LET s == sk.g.slice IN
    IF s.stop # 0 - 1 /\ s.cnt >= s.stop
    THEN IsliceEmpty(sk.g, sk.cs, sk.b, "stop", atOnce)
    ELSE
    LET r == GenNext(sk.g, sk.cs, sk.b, self) IN
    IF r.out # "yield"
    THEN IsliceEmpty(r.g, r.cs, r.b, r.out, atOnce)
    ELSE StepResult([r.g EXCEPT !.slice.cnt = @ + 1,
                                !.slice.next = s.next + 1,
                                !.slice.out = Append(@, r.val)],
                    r.cs, r.b, "yield", r.val)

\* next(islice)
IsliceNext(g, cs, b, self, atOnce) ==
    IF ~g.slice.it THEN StepResult(g, cs, b, "stop", None)
    ELSE
    LET sk == IsliceSkip(g, cs, b, self) IN
    IF sk.out # "yield"
    THEN IsliceEmpty(sk.g, sk.cs, sk.b, sk.out, atOnce)
    ELSE
    LET s == sk.g.slice IN
    IF s.stop # 0 - 1 /\ s.cnt >= s.stop
    THEN IsliceEmpty(sk.g, sk.cs, sk.b, "stop", atOnce)
    ELSE
    LET r == GenNext(sk.g, sk.cs, sk.b, self) IN
    IF r.out # "yield"
    THEN IsliceEmpty(r.g, r.cs, r.b, r.out, atOnce)
    ELSE LET nxt == s.next + s.step IN
         StepResult([r.g EXCEPT !.slice.cnt = @ + 1,
                                !.slice.next = IF s.stop # 0 - 1 /\ nxt > s.stop
                                               THEN s.stop ELSE nxt,
                                !.slice.out = Append(@, r.val)],
                    r.cs, r.b, "yield", r.val)

-----------------------------------------------------------------------------
(* Iteration-side operations.                                              *)

\* What the last call of count or of a subscript returned: the generator
\* it made, how it ended ("ok", "raise" for a backend failure, or the name
\* of the exception), the count returned, and how many cursors the session
\* had handed out before the call.  The generator operations return through
\* the generator's own state and leave NoResult here.
IRet(op, gen, out, n, before, index) ==
    [op |-> op, gen |-> gen, out |-> out, n |-> n, before |-> before,
     index |-> index]

NoResult == IRet("none", 0, None, 0, 0, IntIndex(0))

IInit ==
    /\ gens = <<>>
    /\ cursors = <<>>
    /\ ilast = NoResult

\* it = iter(q)
Iter(i) ==
    /\ gens' = Append(gens, Generator(i, "consumer"))
    /\ cursors' = cursors
    /\ ilast' = NoResult

\* next(it)
Next(k, b) ==
    LET r == GenNext(gens[k], cursors, b, queries[gens[k].query]) IN
    /\ gens' = [gens EXCEPT ![k] = r.g]
    /\ cursors' = r.cs
    /\ ilast' = NoResult

\* it.close()
Close(k) ==
    LET r == GenClose(gens[k], cursors) IN
    /\ gens' = [gens EXCEPT ![k] = r.g]
    /\ cursors' = r.cs
    /\ ilast' = NoResult

\* The consumer stops and lets go of the generator without closing it.
Drop(k, atOnce) ==
    LET r == GenRelease(gens[k], cursors, atOnce) IN
    /\ gens' = [gens EXCEPT ![k] = r.g]
    /\ cursors' = r.cs
    /\ ilast' = NoResult

\* The garbage collector finalizes an unreferenced, unfinished generator.
Finalize(k) ==
    LET r == GenClose(gens[k], cursors) IN
    /\ gens' = [gens EXCEPT ![k] = r.g]
    /\ cursors' = r.cs
    /\ ilast' = NoResult

\* q.count(): the generator is made, run to its end and gone within the call.
Count(i, b) ==
    LET r == Query_count(Generator(i, "none"), cursors, b, queries[i]) IN
    /\ gens' = Append(gens, r.g)
    /\ cursors' = r.cs
    /\ ilast' = IRet("count", Len(gens) + 1,
                     IF r.out = "raise" THEN "raise" ELSE "ok", r.n, Len(cursors),
                     IntIndex(0))

\* s = q[value]
GetItem(i, value) ==
    LET r == Query_getitem(queries[i], value) IN
    /\ gens' = IF r.exc = None
                THEN Append(gens, [Generator(i, "islice") EXCEPT !.slice = r.slice])
                ELSE gens
    /\ cursors' = cursors
    /\ ilast' = IRet("getitem", IF r.exc = None THEN Len(gens) + 1 ELSE 0,
                     IF r.exc = None THEN "ok" ELSE r.exc, 0, Len(cursors), value)

\* next(s)
SliceNext(k, b, atOnce) ==
    LET r == IsliceNext(gens[k], cursors, b, queries[gens[k].query], atOnce) IN
    /\ gens' = [gens EXCEPT ![k] = r.g]
    /\ cursors' = r.cs
    /\ ilast' = NoResult

\* The consumer lets go of the islice, and with it of the generator.
SliceDrop(k, atOnce) ==
    LET r == GenRelease(gens[k], cursors, atOnce) IN
    /\ gens' = [gens EXCEPT ![k] = r.g]
    /\ cursors' = r.cs
    /\ ilast' = NoResult

Min(a, b) == IF a < b THEN a ELSE b

\* How many more rows the backend may still return on generator k's cursor.
RowsLeft(k, maxRows) ==
    IF gens[k].cursor = 0 THEN maxRows
    ELSE maxRows - Len(cursors[gens[k].cursor].rows)

Held(k) == gens[k].ref = "consumer"

Iterate(Q, maxGens, maxRows) ==
    \/ \E i \in Q : Len(gens) < maxGens /\ Iter(i)
    \/ \E k \in DOMAIN gens : \E b \in Scripts(Min(1, RowsLeft(k, maxRows))) :
           Held(k) /\ ~gens[k].slice.on /\ Unfinished(gens[k]) /\ Next(k, b)
    \/ \E k \in DOMAIN gens :
           Held(k) /\ ~gens[k].slice.on /\ Unfinished(gens[k]) /\ Close(k)
    \/ \E k \in DOMAIN gens, atOnce \in BOOLEAN :
           Held(k) /\ ~gens[k].slice.on /\ Unfinished(gens[k]) /\ Drop(k, atOnce)
    \/ \E k \in DOMAIN gens :
           gens[k].ref = "none" /\ Unfinished(gens[k]) /\ Finalize(k)
    \/ \E i \in Q, b \in Scripts(maxRows) :
           Len(gens) < maxGens /\ Count(i, b)

\* How many elements the next call of islice k may take from its generator.
Needed(k) == gens[k].slice.next - gens[k].slice.cnt + 1

Slicing(Q, V0, maxGens, maxRows) ==
    \/ \E i \in Q, v \in V0 : Len(gens) < maxGens /\ GetItem(i, v)
    \/ \E k \in DOMAIN gens, atOnce \in BOOLEAN :
           \E b \in Scripts(Min(Needed(k), RowsLeft(k, maxRows))) :
               gens[k].ref = "islice" /\ SliceNext(k, b, atOnce)
    \/ \E k \in DOMAIN gens, atOnce \in BOOLEAN :
           gens[k].ref = "islice" /\ SliceDrop(k, atOnce)

\* Subscripts handed to q[...]: slices islice accepts (q[1:3], q[::2],
\* q[1:], q[:], q[1:3:2], q[0:1:1], and the empty q[:0] and q[3:1]), slices
\* with a negative or zero field, and a plain integer.
IndexInputs ==
    {SliceIndex(SomeInt(1), SomeInt(3), NoneInt),
     SliceIndex(NoneInt, NoneInt, SomeInt(2)),
     SliceIndex(SomeInt(1), NoneInt, NoneInt),
     SliceIndex(NoneInt, NoneInt, NoneInt),
     SliceIndex(SomeInt(1), SomeInt(3), SomeInt(2)),
     SliceIndex(SomeInt(0), SomeInt(1), SomeInt(1)),
     SliceIndex(NoneInt, SomeInt(0), NoneInt),
     SliceIndex(SomeInt(3), SomeInt(1), NoneInt),
     SliceIndex(SomeInt(0 - 1), NoneInt, NoneInt),
     SliceIndex(SomeInt(0 - 1), SomeInt(0), NoneInt),
     SliceIndex(NoneInt, SomeInt(0 - 1), NoneInt),
     SliceIndex(NoneInt, NoneInt, SomeInt(0 - 1)),
     SliceIndex(NoneInt, NoneInt, SomeInt(0)),
     IntIndex(1)}

-----------------------------------------------------------------------------
(* Specifications.                                                         *)

Init == VInit /\ QInit /\ IInit

\* Edge patterns alone.
SpecV == Init /\ [][NextV]_vars

\* Query composition alone.
SpecQ == Init /\ [][NextQ]_vars

\* Composition and iteration together, on one session; it is the query
\* composed last that is iterated or counted.
SysEdgeInputs == {V("A", "knows", None)}

NextSys ==
    \/ /\ Len(queries) < SysQueries
       /\ Compose(SysEdgeInputs, FragmentInputs, {Tuple(<<"A">>)})
       /\ UNCHANGED <<edges, vlast, gens, cursors, ilast>>
    \/ /\ Iterate({Len(queries)}, SysGens, SysRows)
       /\ UNCHANGED <<edges, vlast, queries, qlast>>

InitSys == Init /\ queries[1].db = "db1"

Spec == InitSys /\ [][NextSys]_vars

\* Iteration, counting and slicing of queries composed beforehand:
\* q1 = Query(db); q2 = q1(V("A").knows); q3 = q2.traverse(V().knows("B")).
ComposedHeap ==
    LET h1 == <<Query("db1", Tuple(<<>>), Tuple(<<>>))>>
        h2 == Allocate(h1, Query_call(h1[1], V("A", "knows", None)))
    IN  Allocate(h2, Query_traverse(h2[2], V(None, "knows", "B")))

InitI ==
    /\ VInit
    /\ IInit
    /\ queries = ComposedHeap
    /\ qlast = QRet("traverse", 2, V(None, "knows", "B"), <<>>, Tuple(<<>>),
                    SubSeq(ComposedHeap, 1, 2),
                    Query_traverse(ComposedHeap[2], V(None, "knows", "B")))

NextI ==
    /\ Iterate(DOMAIN queries, MaxGens, MaxRows)
    /\ UNCHANGED <<edges, vlast, queries, qlast>>

SpecI == InitI /\ [][NextI]_vars

\* Subscripts of the query composed last.
NextS ==
    /\ \/ Slicing({Len(queries)}, IndexInputs, MaxSlices, SliceRows)
       \/ \E k \in DOMAIN gens :
              gens[k].ref = "none" /\ Unfinished(gens[k]) /\ Finalize(k)
    /\ UNCHANGED <<edges, vlast, queries, qlast>>

SpecS == InitI /\ [][NextS]_vars

-----------------------------------------------------------------------------
(* Claims about Query composition, checked under SpecQ.                    *)

IsDerivedOp == qlast.op \in {"derived", "intersection", "difference", "union"}

Receiver == qlast.before[qlast.recv]

\* C1: every derived call (and so every intersection, union and difference)
\* on any Query reachable by composition succeeds, returns a new Query with
\* the receiver's fragments followed by the new one and the receiver's
\* parameters followed by the new ones, and leaves the receiver as it was.
C1_DerivedAlwaysAppends ==
    IsDerivedOp =>
        /\ qlast.exc = None
        /\ qlast.ret = Len(qlast.before) + 1
        /\ qlast.ret \in DOMAIN queries
        /\ queries[qlast.ret].sql.items = Append(Receiver.sql.items, qlast.statement)
        /\ queries[qlast.ret].params.items = Receiver.params.items \o qlast.params.items
        /\ queries[qlast.recv] = Receiver

\* C2: __call__ with a bound endpoint makes exactly one builder call, the
\* forward lookup of (src, rel) when dst is unbound and the inverse lookup
\* of (dst, rel) whenever dst is bound, and returns the receiver's fragments
\* and parameters with that fragment and its parameters appended.
C2_ApplyEdgeDirection ==
    (qlast.op = "call" /\ (qlast.edge.src # None \/ qlast.edge.dst # None)) =>
        LET e == qlast.edge
            want == IF e.dst = None THEN forwards_relation(e.src, e.rel)
                    ELSE inverse_relation(e.dst, e.rel)
        IN  /\ qlast.calls = <<want.call>>
            /\ qlast.exc = None
            /\ qlast.ret \in DOMAIN queries
            /\ queries[qlast.ret].sql.items = Append(Receiver.sql.items, want.statement)
            /\ queries[qlast.ret].params.items = Receiver.params.items \o want.params.items

\* C3: __call__ with neither endpoint bound fails with InvalidPattern, asks
\* no builder, returns no Query and leaves the receiver unchanged.
C3_UnboundPatternRejected ==
    (qlast.op = "call" /\ qlast.edge.src = None /\ qlast.edge.dst = None) =>
        /\ qlast.exc = "InvalidPattern"
        /\ qlast.calls = <<>>
        /\ qlast.ret = 0
        /\ queries = qlast.before

\* C4: traverse returns a new Query on the receiver's db with exactly one
\* fragment, the compound forward traversal of (rel, joined text) when dst
\* is unbound and the compound inverse traversal of (dst, rel, joined text)
\* when it is bound; its parameters are the receiver's followed by the new
\* fragment's; src has no influence; the receiver is unchanged.
C4_TraverseFolds ==
    qlast.op = "traverse" =>
        LET e == qlast.edge
            text == Join(Receiver.sql)
            want == IF e.dst = None THEN compound_fw_query(e.rel, text)
                    ELSE compound_iv_query(e.dst, e.rel, text)
        IN  /\ qlast.exc = None
            /\ qlast.calls = <<want.call>>
            /\ qlast.ret = Len(qlast.before) + 1
            /\ qlast.ret \in DOMAIN queries
            /\ queries[qlast.ret].db = Receiver.db
            /\ queries[qlast.ret].sql.items = <<want.statement>>
            /\ queries[qlast.ret].params.items = Receiver.params.items \o want.params.items
            /\ \A s \in NodeOrNone :
                   Query_traverse(Receiver, [e EXCEPT !.src = s]).ret = queries[qlast.ret]
            /\ \A k \in DOMAIN qlast.before : queries[k] = qlast.before[k]

\* A traversal towards a bound destination, from a receiver that holds two
\* fragments or more and at least one parameter, with src bound as well.
C4_Witness ==
    /\ qlast.op = "traverse"
    /\ qlast.exc = None
    /\ qlast.edge.dst # None
    /\ qlast.edge.src # None
    /\ Len(Receiver.sql.items) >= 2
    /\ Len(Receiver.params.items) >= 1

-----------------------------------------------------------------------------
(* Claims about V, checked under SpecV.                                    *)

Triple(v) == <<v.src, v.rel, v.dst>>

\* C10: two V objects are equal exactly when their (src, rel, dst) triples
\* are equal, equal V objects have equal hashes, and == against a value that
\* is not a V is False without raising; this holds however the objects were
\* built, where a destination bind changes dst alone and a relation bind
\* changes rel alone.
C10_EqualityAndHash ==
    /\ \A i \in DOMAIN edges, j \in DOMAIN edges :
           /\ V_eq(edges[i], edges[j]) <=> (Triple(edges[i]) = Triple(edges[j]))
           /\ V_eq(edges[i], edges[j]) => V_hash(edges[i]) = V_hash(edges[j])
    /\ \A i \in DOMAIN edges, o \in Others : V_eq(edges[i], o) = FALSE
    /\ vlast.op = "eq" =>
           vlast.retBool = (/\ vlast.other.type = "V"
                            /\ Triple(vlast.other) = Triple(vlast.before[vlast.self]))
    /\ vlast.op = "call" =>
           /\ vlast.retSelf
           /\ edges = [vlast.before EXCEPT ![vlast.self].dst = vlast.arg]
    /\ vlast.op = "getattr" =>
           /\ edges[vlast.self].src = vlast.before[vlast.self].src
           /\ edges[vlast.self].dst = vlast.before[vlast.self].dst
           /\ \A k \in DOMAIN edges : k # vlast.self => edges[k] = vlast.before[k]
           /\ vlast.arg \notin SlotNames =>
                  /\ vlast.retSelf
                  /\ edges[vlast.self].rel = vlast.arg

\* Two distinct V objects, both changed by a relation bind and a destination
\* bind since construction, compared and found equal.
C10_Witness ==
    /\ vlast.op = "eq"
    /\ vlast.retBool
    /\ \E i \in DOMAIN edges, j \in DOMAIN edges :
           /\ i # j
           /\ vlast.self = i
           /\ vlast.other = edges[j]
           /\ edges[i].rel = "likes"
           /\ edges[i].dst = "A"
           /\ edges[i].src = "A"
-----------------------------------------------------------------------------
(* Claims about iteration and counting, checked under SpecI and Spec.      *)

\* The generators that have opened a cursor.
Started == {k \in DOMAIN gens : gens[k].cursor # 0}

\* An iteration has ended: its generator ran to the end, raised, was
\* closed, or was let go of by its consumer.
Ended(k) ==
    \/ gens[k].state \in {"finished", "raised", "closed"}
    \/ gens[k].ref = "none"

\* C5: every cursor Iterate opens is released on every exit path; no state
\* is reachable in which an iteration has ended (consumed to the end,
\* closed, abandoned early, or failed in the backend) and its cursor is
\* still open.
C5_CursorReleasedOnEveryExit ==
    \A k \in Started : Ended(k) => ~cursors[gens[k].cursor].open

\* The first column of every row, in order.
RECURSIVE FirstColumns(_)
FirstColumns(rows) ==
    IF rows = <<>> THEN <<>> ELSE <<Head(rows)[1]>> \o FirstColumns(Tail(rows))

\* Every run of the generator has a cursor of its own, on which the joined
\* statement was executed once with the query's parameters, and has yielded
\* the first column of each row fetched on it, in order; every cursor of
\* the session belongs to such a run.
RunsExecuteOnce ==
    /\ \A k \in DOMAIN gens :
           gens[k].state = "created" => gens[k].cursor = 0
    /\ \A k \in Started :
           LET g == gens[k]
               c == cursors[g.cursor]
               q == queries[g.query]
           IN  /\ g.cursor \in DOMAIN cursors
               /\ c.executes = 1
               /\ c.statement = Join(q.sql)
               /\ c.params = q.params.items
               /\ g.yielded = FirstColumns(c.rows)
    /\ \A k1, k2 \in Started : k1 # k2 => gens[k1].cursor # gens[k2].cursor
    /\ Len(cursors) = Cardinality(Started)

\* A step that composes a query leaves the session alone.
CompositionIsPure ==
    (queries' # queries \/ qlast' # qlast) => UNCHANGED <<gens, cursors>>

C7_CountIsOneFullExecution ==
    ilast.op = "count" =>
        LET g == gens[ilast.gen]
            c == cursors[Len(cursors)]
        IN  /\ Len(cursors) = ilast.before + 1
            /\ g.cursor = Len(cursors)
            /\ c.executes = 1
            /\ c.statement = Join(queries[g.query].sql)
            /\ c.params = queries[g.query].params.items
            /\ ~c.open
            /\ ilast.out = "ok" =>
                   /\ g.state = "finished"
                   /\ ilast.n = Len(c.rows)
                   /\ ilast.n = Len(g.yielded)

\* The traversal query is counted and the backend returned two rows.
C7_Witness ==
    /\ ilast.op = "count"
    /\ ilast.out = "ok"
    /\ ilast.n = 2
    /\ gens[ilast.gen].query = 3
    /\ Len(gens[ilast.gen].yielded) = 2

-----------------------------------------------------------------------------
(* Claims about subscripts, checked under SpecS.                           *)

Max(a, b) == IF a > b THEN a ELSE b

\* Standard slice-range semantics with clamped indices, as a sequence type
\* applies them: the elements of Y that Y[start:stop:step] selects.
RECURSIVE Select(_, _, _, _)
Select(Y, i, stop, step) ==
    IF (step > 0 /\ i < stop) \/ (step < 0 /\ i > stop)
    THEN <<Y[i + 1]>> \o Select(Y, i + step, stop, step)
    ELSE <<>>

StandardSlice(Y, index) ==
    LET len == Len(Y)
        step == IF index.step.none THEN 1 ELSE index.step.n
        lower == IF step > 0 THEN 0 ELSE 0 - 1
        upper == IF step > 0 THEN len ELSE len - 1
        Clamp(v, default) ==
            IF v.none THEN default
            ELSE IF v.n < 0 THEN Max(v.n + len, lower) ELSE Min(v.n, upper)
        start == Clamp(index.start, IF step > 0 THEN lower ELSE upper)
        stop == Clamp(index.stop, IF step > 0 THEN upper ELSE lower)
    IN  IF step = 0 THEN <<>> ELSE Select(Y, start, stop, step)

IsSliceCall == ilast.op = "getitem" /\ ilast.index.kind = "slice"

Slices == {k \in DOMAIN gens : gens[k].slice.on}

\* What a slice has handed out is what the standard semantics select from
\* the elements its execution has produced; once it is exhausted without a
\* backend failure, no later element of the execution would be selected.
SliceSelects ==
    \A k \in Slices :
        LET g == gens[k] IN
        /\ g.slice.out = StandardSlice(g.yielded, g.slice.index)
        /\ (~g.slice.it /\ g.state # "raised") =>
               \/ g.state = "finished"
               \/ /\ ~g.slice.index.stop.none
                  /\ Len(g.yielded) >= g.slice.index.stop.n

\* C8 as stated: for every slice range with step not zero, q.Slice yields
\* the elements of the execution's order that standard slice-range
\* semantics with clamped indices select, and an empty range, whatever
\* start and stop produce it, is an empty sequence and never a failure.
C8_EverySliceRange ==
    /\ (IsSliceCall /\ (ilast.index.step.none \/ ilast.index.step.n # 0)) =>
           ilast.out = "ok"
    /\ SliceSelects

\* C8, amended: for start and stop each None or at least 0 and step None or
\* at least 1 the subscript succeeds and the slice yields the elements the
\* standard semantics select, an empty range being an empty sequence; any
\* other slice range fails with ValueError before a cursor is opened.
C8_NonNegativeSliceRange ==
    /\ IsSliceCall =>
           LET v == ilast.index
               ok == /\ v.start.none \/ v.start.n >= 0
                     /\ v.stop.none \/ v.stop.n >= 0
                     /\ v.step.none \/ v.step.n >= 1
           IN  /\ ok => ilast.out = "ok" /\ ilast.gen = Len(gens)
               /\ ~ok => ilast.out = "ValueError" /\ ilast.gen = 0
               /\ Len(cursors) = ilast.before
    /\ SliceSelects

\* q[1:3] run to its end over an execution of three rows: it has handed
\* out the second and the third.
C8_Witness ==
    \E k \in Slices :
        /\ gens[k].slice.index = SliceIndex(SomeInt(1), SomeInt(3), NoneInt)
        /\ ~gens[k].slice.it
        /\ gens[k].yielded = <<"A", "B", "A">>
        /\ gens[k].slice.out = <<"B", "A">>

\* C9: a subscript that is not slice-shaped fails (AttributeError stands
\* for the unsupported-index condition), and no cursor is opened and no
\* statement executed for it.
C9_NonSliceIndexRejected ==
    (ilast.op = "getitem" /\ ilast.index.kind # "slice") =>
        /\ ilast.out = "AttributeError"
        /\ ilast.gen = 0
        /\ Len(cursors) = ilast.before
        /\ \A k \in DOMAIN gens : gens[k].slice.index # ilast.index

\* q[1] has just been evaluated.
C9_Witness ==
    /\ ilast.op = "getitem"
    /\ ilast.index = IntIndex(1)
    /\ ilast.out # "ok"

=============================================================================
